---------------------------- MODULE Spec2Model ----------------------------
(***************************************************************************)
(* A model of kurtbuilds/logfmt2:                                          *)
(*   - src/src/humantime.rs : parse_duration (Parser::parse, add_unit)     *)
(*   - src/src/lib.rs       : DataValue::from(&str), Parser::parse         *)
(*   - src/src/logfmt.rs    : parse_logfmt, the two-phase tokenizer        *)
(*                                                                         *)
(* Strings are sequences of characters; a character is a one-character     *)
(* TLA+ string, except MicroSign, which stands for the two-byte U+00B5.    *)
(* Offsets are the code's 0-based byte offsets: Slice(s, a, b) is s[a..b]. *)
(* An Option is a sequence of length at most one: None is << >> and        *)
(* Some(x) is <<x>>.                                                       *)
(***************************************************************************)
EXTENDS Integers, Sequences, FiniteSets, TLC

\* ------------------------------------------------------------------------
\* Options, slices, characters
\* ------------------------------------------------------------------------

None == << >>

Some(x) == <<x>>

IsNone(o) == o = << >>

IsSome(o) == o # << >>

\* s[a..b) of the code, with 0-based offsets a <= b <= Len(s).
Slice(s, a, b) == SubSeq(s, a + 1, b)

Contains(s, chars) == \E i \in 1..Len(s) : s[i] \in chars

RECURSIVE Concat(_)
\* The concatenation of a sequence of strings.
Concat(ss) == IF ss = << >> THEN << >> ELSE Head(ss) \o Concat(Tail(ss))

RECURSIVE SeqsUpTo(_, _)
\* The sequences of at most n elements of S.
SeqsUpTo(S, n) ==
    IF n = 0 THEN { << >> }
    ELSE LET shorter == SeqsUpTo(S, n - 1)
         IN  shorter \cup { Append(s, x) : s \in shorter, x \in S }

\* The micro sign U+00B5: one character, two bytes in UTF-8.
MicroSign == "micro"

\* The UTF-8 width of a character of the model's alphabets.
Width(c) == IF c = MicroSign THEN 2 ELSE 1

RECURSIVE ByteOffset(_, _)
\* The byte offset of the character with 0-based character index p, as
\* char_indices() reports it; ByteOffset(s, Len(s)) is s.len().
ByteOffset(s, p) == IF p = 0 THEN 0 ELSE ByteOffset(s, p - 1) + Width(s[p])

Digits == {"0", "1", "2", "3", "4", "5", "6", "7", "8", "9"}

\* c as u64 - '0' as u64
DigitVal(c) ==
    CASE c = "0" -> 0 [] c = "1" -> 1 [] c = "2" -> 2 [] c = "3" -> 3
      [] c = "4" -> 4 [] c = "5" -> 5 [] c = "6" -> 6 [] c = "7" -> 7
      [] c = "8" -> 8 [] c = "9" -> 9

\* char::is_whitespace, on the characters the alphabets hold.
IsWhitespace(c) == c \in {" ", "\t", "\n"}

LowerLetters ==
    {"a", "b", "c", "d", "e", "f", "g", "h", "i", "j", "k", "l", "m",
     "n", "o", "p", "q", "r", "s", "t", "u", "v", "w", "x", "y", "z"}

UpperLetters ==
    {"A", "B", "C", "D", "E", "F", "G", "H", "I", "J", "K", "L", "M",
     "N", "O", "P", "Q", "R", "S", "T", "U", "V", "W", "X", "Y", "Z"}

\* char::is_ascii_alphabetic
IsAsciiAlphabetic(c) == c \in LowerLetters \cup UpperLetters

\* ------------------------------------------------------------------------
\* Unsigned and signed 64-bit numbers as decimal digit sequences.  TLC's
\* integers are 32 bits wide, so an accumulator that the code keeps in a
\* u64 is kept here as its decimal digits (no leading zero, <<0>> for 0),
\* and the 64-bit range checks compare digit sequences.
\* ------------------------------------------------------------------------

RECURSIVE StripZeros(_)
StripZeros(ds) ==
    IF Len(ds) > 1 /\ Head(ds) = 0 THEN StripZeros(Tail(ds)) ELSE ds

RECURSIVE LexLE(_, _)
\* a <= b for digit sequences of equal length.
LexLE(a, b) ==
    IF a = << >> THEN TRUE
    ELSE IF Head(a) # Head(b) THEN Head(a) < Head(b)
    ELSE LexLE(Tail(a), Tail(b))

\* a <= b for digit sequences without leading zeros.
DigitsLE(a, b) == Len(a) < Len(b) \/ (Len(a) = Len(b) /\ LexLE(a, b))

\* u64::MAX = 18446744073709551615
U64MaxDigits == <<1,8,4,4,6,7,4,4,0,7,3,7,0,9,5,5,1,6,1,5>>

\* i64::MAX = 9223372036854775807
I64MaxDigits == <<9,2,2,3,3,7,2,0,3,6,8,5,4,7,7,5,8,0,7>>

\* -i64::MIN = 9223372036854775808
I64MinDigits == <<9,2,2,3,3,7,2,0,3,6,8,5,4,7,7,5,8,0,8>>

RECURSIVE NatOf(_)
\* The number a digit sequence writes (for the values TLC can hold).
NatOf(ds) == IF ds = << >> THEN 0 ELSE NatOf(SubSeq(ds, 1, Len(ds) - 1)) * 10 + ds[Len(ds)]

\* The digits of a string of decimal digit characters.
DigitsOf(s) == StripZeros([i \in 1..Len(s) |-> DigitVal(s[i])])

IsDigitString(s) == s # << >> /\ \A i \in 1..Len(s) : s[i] \in Digits

\* n.checked_mul(10).and_then(|x| x.checked_add(digit)): None (here << >>)
\* when the result leaves the u64 range, else Some(the new accumulator).
RECURSIVE TimesPlus(_, _, _)
\* The digits of NatOf(ds) * m + c, computed digit by digit; they may begin
\* with zeros.
TimesPlus(ds, m, c) ==
    IF ds = << >>
    THEN IF c = 0 THEN << >> ELSE TimesPlus(<< >>, m, c \div 10) \o <<c % 10>>
    ELSE LET x == ds[Len(ds)] * m + c
         IN  TimesPlus(SubSeq(ds, 1, Len(ds) - 1), m, x \div 10) \o <<x % 10>>

\* NatOf(ds) * m + c as a digit sequence without leading zeros.
DigitsTimesPlus(ds, m, c) == StripZeros(<<0>> \o TimesPlus(ds, m, c))

RECURSIVE AddCarry(_, _, _)
AddCarry(a, b, c) ==
    IF a = << >> /\ b = << >> THEN (IF c = 0 THEN << >> ELSE <<c>>)
    ELSE LET x == (IF a = << >> THEN 0 ELSE a[Len(a)])
                  + (IF b = << >> THEN 0 ELSE b[Len(b)]) + c
         IN  AddCarry(IF a = << >> THEN a ELSE SubSeq(a, 1, Len(a) - 1),
                      IF b = << >> THEN b ELSE SubSeq(b, 1, Len(b) - 1),
                      x \div 10) \o <<x % 10>>

\* a + b for digit sequences.
DigitsAdd(a, b) == StripZeros(<<0>> \o AddCarry(a, b, 0))

\* From 2^53 on every f64 is a whole number.
TwoPow53Digits == <<9,0,0,7,1,9,9,2,5,4,7,4,0,9,9,2>>

\* `x as u64` for a non-negative f64 x with the whole part ds: the cast
\* saturates at u64::MAX.
AsU64(ds) == IF DigitsLE(ds, U64MaxDigits) THEN ds ELSE U64MaxDigits

CheckedPush(acc, digit) ==
    LET next == StripZeros(Append(acc, digit))
    IN  IF DigitsLE(next, U64MaxDigits) THEN Some(next) ELSE None

\* ------------------------------------------------------------------------
\* humantime.rs: parse_duration
\* ------------------------------------------------------------------------

ErrEmpty == [err |-> "Empty"]

ErrInvalidCharacter(i) == [err |-> "InvalidCharacter", at |-> i]

ErrNumberOverflow == [err |-> "NumberOverflow"]

ErrUnknownUnit(unit, n) == [err |-> "UnknownUnit", unit |-> unit, value |-> n]

IsErr(r) == "err" \in DOMAIN r

IsOk(r) == ~IsErr(r)

\* The units add_unit knows whose multiplier is below one second, with the
\* nanoseconds one unit is worth (1e-9, 1e-6, 1e-3 seconds).
SubSecondUnits ==
    ( <<"n","a","n","o","s">> :> 1 ) @@ ( <<"n","s","e","c">> :> 1 ) @@
    ( <<"n","s">> :> 1 ) @@
    ( <<"u","s","e","c">> :> 1000 ) @@ ( <<"u","s">> :> 1000 ) @@
    ( <<MicroSign,"s">> :> 1000 ) @@
    ( <<"m","i","l","l","i","s">> :> 1000000 ) @@
    ( <<"m","s","e","c">> :> 1000000 ) @@ ( <<"m","s">> :> 1000000 )

\* The units add_unit knows whose multiplier is whole seconds.
SecondUnits ==
    ( <<"s","e","c","o","n","d","s">> :> 1 ) @@ ( <<"s","e","c","o","n","d">> :> 1 ) @@
    ( <<"s","e","c","s">> :> 1 ) @@ ( <<"s","e","c">> :> 1 ) @@ ( <<"s">> :> 1 ) @@
    ( <<"m","i","n","u","t","e","s">> :> 60 ) @@ ( <<"m","i","n","u","t","e">> :> 60 ) @@
    ( <<"m","i","n">> :> 60 ) @@ ( <<"m","i","n","s">> :> 60 ) @@ ( <<"m">> :> 60 ) @@
    ( <<"h","o","u","r","s">> :> 3600 ) @@ ( <<"h","o","u","r">> :> 3600 ) @@
    ( <<"h","r">> :> 3600 ) @@ ( <<"h","r","s">> :> 3600 ) @@ ( <<"h">> :> 3600 ) @@
    ( <<"d","a","y","s">> :> 86400 ) @@ ( <<"d","a","y">> :> 86400 ) @@ ( <<"d">> :> 86400 ) @@
    ( <<"w","e","e","k","s">> :> 604800 ) @@ ( <<"w","e","e","k">> :> 604800 ) @@
    ( <<"w">> :> 604800 ) @@
    ( <<"m","o","n","t","h","s">> :> 2630016 ) @@ ( <<"m","o","n","t","h">> :> 2630016 ) @@
    ( <<"M">> :> 2630016 ) @@
    ( <<"y","e","a","r","s">> :> 31557600 ) @@ ( <<"y","e","a","r">> :> 31557600 ) @@
    ( <<"y">> :> 31557600 )

KnownUnits == DOMAIN SubSecondUnits \cup DOMAIN SecondUnits

NanosPerSec == 1000000000

Zeros(k) == [i \in 1..k |-> 0]

\* unit * (d / 10^places) for a whole multiplier m: the whole part as a
\* number and the fraction as its first `places` decimal digits.
FractionTimes(d, places, m) ==
    LET md == Zeros(places) \o DigitsTimesPlus(d, m, 0)
        at == Len(md) - places
    IN  [ whole |-> NatOf(SubSeq(md, 1, at)),
          frac  |-> SubSeq(md, at + 1, Len(md)) ]

\* f64::round of a non-negative fraction given by its decimal digits: half
\* rounds up.
RoundUp(frac) == IF frac # << >> /\ frac[1] >= 5 THEN 1 ELSE 0

\* (0.frac * 1e9).round(): the first nine decimal digits of the fraction,
\* rounded by the tenth.
NanosOf(frac) ==
    LET f == frac \o Zeros(9)
    IN  NatOf(SubSeq(f, 1, 9)) + RoundUp(SubSeq(f, 10, Len(f)))

\* add_unit's arithmetic for a known unit: the pair (sec as u64, ns) it
\* adds to self.current.  The code computes
\*     places = d.to_string().len();  x = n + d / 10^places;
\*     sec = unit * x;  ns = round(fract(sec) * 1e9)
\* in f64; the model computes the same quantities exactly, on decimal
\* digits, since a u64 can exceed TLC's integers.  The units below one
\* second are counted in nanoseconds.  The cast `sec as u64` saturates,
\* and a sec of 2^53 or more has no fractional part.
UnitAmount(n, d, unit) ==
    LET places == Len(d)
    IN  IF unit \in DOMAIN SecondUnits
        THEN LET m   == SecondUnits[unit]
                 x   == FractionTimes(d, places, m)
                 sec == DigitsTimesPlus(n, m, x.whole)
             IN  [ secs  |-> AsU64(sec),
                   nanos |-> IF DigitsLE(TwoPow53Digits, sec) THEN 0
                             ELSE NanosOf(x.frac) ]
        ELSE LET u     == SubSecondUnits[unit]
                 x     == FractionTimes(d, places, u)
                 whole == DigitsTimesPlus(n, u, x.whole)
                 cut   == IF Len(whole) > 9 THEN Len(whole) - 9 ELSE 0
             IN  [ secs  |-> AsU64(StripZeros(<<0>> \o SubSeq(whole, 1, cut))),
                   nanos |-> NatOf(SubSeq(whole, cut + 1, Len(whole)))
                                 + RoundUp(x.frac) ]

\* Parser::add_unit: the new self.current, or Err(UnknownUnit).  The two
\* `+=` of lines 92-93 are unchecked; they add to (0, 0), because the unit
\* loop ends only at the end of the input and add_unit runs once per call.
AddUnit(current, n, d, unit) ==
    IF unit \notin KnownUnits THEN ErrUnknownUnit(unit, n)
    ELSE LET a == UnitAmount(n, d, unit)
         IN  [ secs  |-> DigitsAdd(current.secs, a.secs),
               nanos |-> current.nanos + a.nanos ]

RECURSIVE FractionLoopKeepZeros(_, _, _)
\* A variant of the inner while that keeps the zeros written in front of the
\* fraction, so that the divisor counts the characters written.
FractionLoopKeepZeros(s, p, d) ==
    IF p = Len(s) THEN [p |-> p, d |-> d]
    ELSE LET c == s[p + 1]
         IN  IF c \in Digits
             THEN LET next == IF s[p] = "." THEN <<DigitVal(c)>>
                              ELSE Append(d, DigitVal(c))
                  IN  IF ~DigitsLE(StripZeros(next), U64MaxDigits) THEN ErrNumberOverflow
                      ELSE FractionLoopKeepZeros(s, p + 1, next)
             ELSE [p |-> p, d |-> d]

RECURSIVE FractionLoop(_, _, _)
\* The inner while of the '.' arm: p is the iterator's position (the index
\* of the next character), d the fraction accumulated so far.  Returns where
\* the outer loop is left: at a non-digit (break 'outer) or at the end.
FractionLoop(s, p, d) ==
    IF p = Len(s) THEN [p |-> p, d |-> d]
    ELSE LET c == s[p + 1]
         IN  IF c \in Digits
             THEN LET next == CheckedPush(d, DigitVal(c))
                  IN  IF IsNone(next) THEN ErrNumberOverflow
                      ELSE FractionLoop(s, p + 1, next[1])
             ELSE [p |-> p, d |-> d]

RECURSIVE NumberLoop(_, _, _)
\* The 'outer while: digits, one '.', whitespace; anything else is an
\* InvalidCharacter.  Returns [p, n, d] or an error.
NumberLoop(s, p, n) ==
    IF p = Len(s) THEN [p |-> p, n |-> n, d |-> <<0>>]
    ELSE LET c == s[p + 1]
         IN  CASE c \in Digits ->
                    LET next == CheckedPush(n, DigitVal(c))
                    IN  IF IsNone(next) THEN ErrNumberOverflow
                        ELSE NumberLoop(s, p + 1, next[1])
               [] c = "." ->
                    LET f == FractionLoop(s, p + 1, <<0>>)
                    IN  IF IsErr(f) THEN f ELSE [p |-> f.p, n |-> n, d |-> f.d]
               [] IsWhitespace(c) -> NumberLoop(s, p + 1, n)
               [] OTHER -> ErrInvalidCharacter(ByteOffset(s, p))

RECURSIVE UnitLoop(_, _)
\* The unit loop: every remaining character must be ASCII alphabetic.
UnitLoop(s, p) ==
    IF p = Len(s) THEN [p |-> p]
    ELSE IF IsAsciiAlphabetic(s[p + 1]) THEN UnitLoop(s, p + 1)
    ELSE ErrInvalidCharacter(ByteOffset(s, p))

\* Every TLC integer is below 2^32, so the cast keeps the value.
AsU32(x) == x

\* Duration::new(secs, nanos): nanoseconds of a second or more carry over.
DurationNew(secs, nanos) ==
    [ secs  |-> DigitsTimesPlus(secs, 1, nanos \div NanosPerSec),
      nanos |-> nanos % NanosPerSec ]

\* A variant of the loop in which a quantity without a unit counts as
\* seconds instead of ending with Error::Empty.
GroupLoopUnitless(s, p, current) ==
    LET num == NumberLoop(s, p, <<0>>)
    IN  IF IsErr(num) THEN num
        ELSE LET u    == IF num.p = Len(s) THEN [p |-> num.p] ELSE UnitLoop(s, num.p)
                 unit == IF num.p = Len(s) THEN <<"s">> ELSE Slice(s, num.p, u.p)
             IN  IF IsErr(u) THEN u
                 ELSE LET cur == AddUnit(current, num.n, num.d, unit)
                      IN  IF IsErr(cur) THEN cur
                          ELSE [ok |-> DurationNew(cur.secs, AsU32(cur.nanos))]

RECURSIVE GroupLoop(_, _, _)
\* The loop of Parser::parse: one "quantity + unit" group per round.
GroupLoop(s, p, current) ==
    LET num == NumberLoop(s, p, <<0>>)
    IN  IF IsErr(num) THEN num
        ELSE IF num.p = Len(s) THEN ErrEmpty
        ELSE LET u == UnitLoop(s, num.p)
             IN  IF IsErr(u) THEN u
                 ELSE LET unit == Slice(s, num.p, u.p)
                          cur  == AddUnit(current, num.n, num.d, unit)
                      IN  IF IsErr(cur) THEN cur
                          ELSE IF u.p = Len(s)
                               THEN [ok |-> DurationNew(cur.secs, AsU32(cur.nanos))]
                               ELSE GroupLoop(s, u.p, cur)

\* parse_duration(s)
ParseDuration(s) == GroupLoop(s, 0, [secs |-> <<0>>, nanos |-> 0])

\* ------------------------------------------------------------------------
\* lib.rs: DataValue and the Value Coercer, impl From<&str> for DataValue
\* ------------------------------------------------------------------------

\* s without one leading sign character.
Unsigned(s) == IF s # << >> /\ Head(s) \in {"+", "-"} THEN Tail(s) ELSE s

IsNegative(s) == s # << >> /\ Head(s) = "-"

\* s.parse::<i64>() succeeds: an optional sign, one or more decimal digits
\* and nothing else, within the i64 range.
ParsesAsI64(s) ==
    LET body == Unsigned(s)
    IN  /\ IsDigitString(body)
        /\ DigitsLE(DigitsOf(body), IF IsNegative(s) THEN I64MinDigits ELSE I64MaxDigits)

\* The i64 that s.parse::<i64>() returns.
I64Of(s) ==
    LET v == NatOf(DigitsOf(Unsigned(s))) IN IF IsNegative(s) THEN 0 - v ELSE v

\* ASCII lower case of the letters that spell inf, infinity and nan.
LowerChar(c) ==
    CASE c = "I" -> "i" [] c = "N" -> "n" [] c = "F" -> "f" [] c = "A" -> "a"
      [] c = "T" -> "t" [] c = "Y" -> "y" [] OTHER -> c

Lower(s) == [i \in 1..Len(s) |-> LowerChar(s[i])]

\* The mantissa of a decimal float literal: digits with at most one '.',
\* and at least one digit.
IsMantissa(s) ==
    /\ \A i \in 1..Len(s) : s[i] \in Digits \cup {"."}
    /\ Cardinality({i \in 1..Len(s) : s[i] = "."}) <= 1
    /\ \E i \in 1..Len(s) : s[i] \in Digits

\* The exponent of a decimal float literal, after its 'e': an optional sign
\* and one or more digits.
IsExponent(s) == IsDigitString(Unsigned(s))

\* s.parse::<f64>() succeeds (core::num::dec2flt): an optional sign, then
\* inf, infinity or nan in any case, or a decimal literal with an optional
\* exponent.
ParsesAsF64(s) ==
    LET body == Unsigned(s)
        es   == {i \in 1..Len(body) : body[i] \in {"e", "E"}}
    IN  \/ Lower(body) \in { <<"i","n","f">>, <<"n","a","n">>,
                             <<"i","n","f","i","n","i","t","y">> }
        \/ es = {} /\ IsMantissa(body)
        \/ \E i \in es : /\ IsMantissa(SubSeq(body, 1, i - 1))
                         /\ IsExponent(SubSeq(body, i + 1, Len(body)))

DataValueI64(int) == [tag |-> "I64", v |-> int]

\* The f64 is kept as the literal it was parsed from.
DataValueF64(literal) == [tag |-> "F64", v |-> literal]

DataValueDuration(duration) == [tag |-> "Duration", v |-> duration]

DataValueString(s) == [tag |-> "String", v |-> s]

\* A variant of the coercer that tries the float before the integer.
FromFloatFirst(s) ==
    IF ParsesAsF64(s) THEN DataValueF64(s)
    ELSE IF ParsesAsI64(s) THEN DataValueI64(I64Of(s))
    ELSE LET duration == ParseDuration(s)
         IN  IF IsOk(duration) THEN DataValueDuration(duration.ok)
             ELSE DataValueString(s)

\* impl From<&str> for DataValue
From(s) ==
    IF ParsesAsI64(s) THEN DataValueI64(I64Of(s))
    ELSE IF ParsesAsF64(s) THEN DataValueF64(s)
    ELSE LET duration == ParseDuration(s)
         IN  IF IsOk(duration) THEN DataValueDuration(duration.ok)
             ELSE DataValueString(s)

\* ------------------------------------------------------------------------
\* logfmt.rs: parse_logfmt, and lib.rs: Parser::parse
\* ------------------------------------------------------------------------

VARIABLES
    strategy,           \* Parser.strategy: "Direct" (Logfmt) or "Nested" (outer, then Logfmt)
    pass,               \* the parse that is running: "outer" or "inner"
    line,               \* the string being tokenized
    pos,                \* the iterator s: the index of the character next() yields
    pc,                 \* "json", "failed", "phase1", "phase2", "finalize", "done",
                        \* "panicked", "merged", "scalar"
    level,              \* Option<String>
    logger_name,        \* Option<String>
    data,               \* HashMap<String, DataValue>, a function
    log_message_start,  \* usize
    log_message_end,    \* Option<usize>
    cur_token_idx,      \* usize
    key,                \* the key of the pair read last (line 62)
    value,              \* the raw value of the pair read last (line 90)
    pairs,              \* history: the pairs inserted so far, in order, with their extent
    stdout,             \* what println! wrote
    returned,           \* Option<Log>: what parse_logfmt returned
    outer,              \* Option<Log>: Parser::parse's outer record (Nested)
    merged,             \* Option<Log>: what Parser::parse returned (Nested)
    src,                \* the argument of parse_duration / DataValue::from
    duration,           \* Option<Result<Duration, Error>>: parse_duration(src)
    coerced             \* Option<DataValue>: DataValue::from(src)

scanner == <<line, pos, level, logger_name, data, log_message_start,
             log_message_end, cur_token_idx, key, value, pairs>>

scalar == <<src, duration, coerced>>

nested == <<outer, merged>>

vars == <<strategy, pass, pc, scanner, stdout, returned, nested, scalar>>

INFO == <<"I","N","F","O">>

WARN == <<"W","A","R","N">>

WARNING == <<"W","A","R","N","I","N","G">>

ERROR == <<"E","R","R","O","R">>

DEBUG == <<"D","E","B","U","G">>

TRACE == <<"T","R","A","C","E">>

LOG == <<"L","O","G">>

\* The first arm of the match at line 22.
Severities == {INFO, WARN, WARNING, ERROR, DEBUG, TRACE, LOG}

\* A variant of the guard that takes every token for a logger name.
IsAnyToken(token) == Len(token) >= 0

\* The guard of the second arm, line 30: s.contains(&['.', ':'])
IsNameLike(token) == Contains(token, {".", ":"})

EmptyData == [k \in {} |-> 0]

\* A variant of insert that keeps the value a key already has.
InsertKeepFirst(map, k, v) ==
    [x \in DOMAIN map \cup {k} |-> IF x \in DOMAIN map THEN map[x] ELSE v]

\* HashMap::insert
Insert(map, k, v) == [x \in DOMAIN map \cup {k} |-> IF x = k THEN v ELSE map[x]]

\* The struct Log of lib.rs.
Log(lv, name, msg, d) ==
    [ dt |-> None, level |-> lv, name |-> name, message |-> msg,
      platform |-> None, extension |-> None, data |-> d ]

\* s.peek(): the character the iterator yields next.
Peek == line[pos + 1]

\* line 19: c == ':' && matches!(s.peek(), Some((_, ' '))), for the c at pos.
AtColon == Peek = ":" /\ pos + 1 < Len(line) /\ line[pos + 2] = " "

\* line 21: &line[cur_token_idx..i], for the delimiter at i = pos.
Token == Slice(line, cur_token_idx, pos)

\* A variant of the lines after the match that leaves the space after a
\* colon in the message.
AfterTokenKeepSpace(start) ==
    /\ cur_token_idx' = pos + 1
    /\ pos' = pos + 1
    /\ log_message_start' = start
    /\ pc' = IF AtColon THEN "phase2" ELSE "phase1"

\* Lines 42-49, after the match: the token cursor moves past the delimiter;
\* a colon-space ends phase 1 and, if a header was consumed, skips the space.
AfterToken(start) ==
    /\ cur_token_idx' = pos + 1
    /\ pos' = pos + 1
    /\ IF AtColon
       THEN /\ log_message_start' = IF start > 0 THEN start + 1 ELSE start
            /\ pc' = "phase2"
       ELSE /\ log_message_start' = start
            /\ pc' = "phase1"

\* Lines 14-17: the next character is '=': phase 1 ends, '=' is not consumed.
Phase1Break ==
    /\ pc = "phase1" /\ pos < Len(line) /\ Peek = "="
    /\ pc' = "phase2"
    /\ UNCHANGED <<strategy, pass, scanner, stdout, returned, nested, scalar>>

\* Line 14: the iterator is exhausted.
Phase1Exhausted ==
    /\ pc = "phase1" /\ pos = Len(line)
    /\ pc' = "phase2"
    /\ UNCHANGED <<strategy, pass, scanner, stdout, returned, nested, scalar>>

\* Lines 18-20: a character that is no delimiter is consumed.
Phase1Skip ==
    /\ pc = "phase1" /\ pos < Len(line)
    /\ Peek \notin {"=", " "} /\ ~AtColon
    /\ pos' = pos + 1
    /\ UNCHANGED <<strategy, pass, pc, line, level, logger_name, data,
                   log_message_start, log_message_end, cur_token_idx, key,
                   value, pairs, stdout, returned, nested, scalar>>

\* A variant of the severity arm in which a later severity word replaces
\* the recorded one.
Phase1SeverityLast ==
    /\ pc = "phase1" /\ pos < Len(line)
    /\ Peek = " " \/ AtColon
    /\ Token \in Severities
    /\ level' = Some(Token)
    /\ AfterToken(IF cur_token_idx = log_message_start THEN pos + 1
                  ELSE log_message_start)
    /\ UNCHANGED <<strategy, pass, line, logger_name, data, log_message_end,
                   key, value, pairs, stdout, returned, nested, scalar>>

\* Lines 20-29, 42-49: a delimiter after a severity word.
Phase1Severity ==
    /\ pc = "phase1" /\ pos < Len(line)
    /\ Peek = " " \/ AtColon
    /\ Token \in Severities
    /\ level' = IF IsNone(level) THEN Some(Token) ELSE level
    /\ AfterToken(IF cur_token_idx = log_message_start THEN pos + 1
                  ELSE log_message_start)
    /\ UNCHANGED <<strategy, pass, line, logger_name, data, log_message_end,
                   key, value, pairs, stdout, returned, nested, scalar>>

\* A variant of the logger name arm that records and consumes the token
\* wherever it stands.
Phase1LoggerNameAnywhere ==
    /\ pc = "phase1" /\ pos < Len(line)
    /\ Peek = " " \/ AtColon
    /\ Token \notin Severities /\ IsNameLike(Token)
    /\ logger_name' = IF IsNone(logger_name) THEN Some(Token) ELSE logger_name
    /\ AfterToken(pos + 1)
    /\ UNCHANGED <<strategy, pass, line, level, data, log_message_end,
                   key, value, pairs, stdout, returned, nested, scalar>>

\* Lines 20-21, 30-39, 42-49: a delimiter after a token with a '.' or a ':'.
Phase1LoggerName ==
    /\ pc = "phase1" /\ pos < Len(line)
    /\ Peek = " " \/ AtColon
    /\ Token \notin Severities /\ IsNameLike(Token)
    /\ logger_name' = IF cur_token_idx = log_message_start /\ IsNone(logger_name)
                      THEN Some(Token) ELSE logger_name
    /\ AfterToken(IF cur_token_idx = log_message_start THEN pos + 1
                  ELSE log_message_start)
    /\ UNCHANGED <<strategy, pass, line, level, data, log_message_end,
                   key, value, pairs, stdout, returned, nested, scalar>>

\* Lines 20-21, 40, 42-49: a delimiter after any other token.
Phase1Ordinary ==
    /\ pc = "phase1" /\ pos < Len(line)
    /\ Peek = " " \/ AtColon
    /\ Token \notin Severities /\ ~IsNameLike(Token)
    /\ AfterToken(log_message_start)
    /\ UNCHANGED <<strategy, pass, line, level, logger_name, data,
                   log_message_end, key, value, pairs, stdout, returned,
                   nested, scalar>>

RECURSIVE QuotedLoop(_, _, _)
\* Lines 73-85: the loop after an opening quote, from iterator position p,
\* with cur the value's start.  A backslash skips the next character; the
\* closing quote ends the value (break 'outer); at the end of the input the
\* value runs to line.len().
QuotedLoop(s, p, cur) ==
    IF p >= Len(s)
    THEN [pos |-> Len(s), cur |-> cur, end |-> Len(s), closed |-> FALSE]
    ELSE CASE s[p + 1] = "\\" -> QuotedLoop(s, p + 2, cur)
           [] s[p + 1] = "\"" -> [pos |-> p + 1, cur |-> cur, end |-> p, closed |-> TRUE]
           [] OTHER           -> QuotedLoop(s, p + 1, cur)

RECURSIVE ValueLoop(_, _, _)
\* Lines 64-89: the 'outer loop that reads a value, from iterator position
\* p, with cur the value's start.  A space ends the value; a double quote,
\* wherever it stands, restarts the value after it and reads to the closing
\* quote.  Returns the iterator's position, cur_token_idx and end_token_idx.
ValueLoop(s, p, cur) ==
    IF p = Len(s)
    THEN [pos |-> p, cur |-> cur, end |-> Len(s), closed |-> FALSE]
    ELSE CASE s[p + 1] = " "  -> [pos |-> p + 1, cur |-> cur, end |-> p, closed |-> FALSE]
           [] s[p + 1] = "\"" -> QuotedLoop(s, p + 1, p + 1)
           [] OTHER           -> ValueLoop(s, p + 1, cur)

\* Line 52: the iterator is exhausted.
Phase2Exhausted ==
    /\ pc = "phase2" /\ pos = Len(line)
    /\ pc' = "finalize"
    /\ UNCHANGED <<strategy, pass, scanner, stdout, returned, nested, scalar>>

\* A variant of the space arm that leaves the message end as it is.
Phase2SpaceKeepsEnd ==
    /\ pc = "phase2" /\ pos < Len(line) /\ Peek = " "
    /\ cur_token_idx' = pos + 1
    /\ pos' = pos + 1
    /\ UNCHANGED <<strategy, pass, pc, line, level, logger_name, data,
                   log_message_start, log_message_end, key, value, pairs,
                   stdout, returned, nested, scalar>>

\* Lines 54-57: a space unsets the message end and starts a token.
Phase2Space ==
    /\ pc = "phase2" /\ pos < Len(line) /\ Peek = " "
    /\ log_message_end' = None
    /\ cur_token_idx' = pos + 1
    /\ pos' = pos + 1
    /\ UNCHANGED <<strategy, pass, pc, line, level, logger_name, data,
                   log_message_start, key, value, pairs, stdout, returned,
                   nested, scalar>>

\* A variant of the marker that lies on the first character of the key.
MessageEndAtKey(cur) == Some(cur)

\* Line 60: Some(cur_token_idx - 1), the space in front of the key.
MessageEndBefore(cur) == Some(cur - 1)

\* Lines 58-93: '=' ends a key; its value is read and the pair inserted.
Phase2Pair ==
    /\ pc = "phase2" /\ pos < Len(line) /\ Peek = "="
    /\ log_message_end' = IF IsNone(log_message_end) /\ cur_token_idx > 0
                          THEN MessageEndBefore(cur_token_idx) ELSE log_message_end
    /\ IF cur_token_idx > pos
       THEN \* &line[cur_token_idx..i] with begin > end panics
            /\ pc' = "panicked"
            /\ UNCHANGED <<pos, key, value, data, cur_token_idx, pairs>>
       ELSE LET v == ValueLoop(line, pos + 1, pos + 1)
            IN  /\ key' = Slice(line, cur_token_idx, pos)
                /\ value' = Slice(line, v.cur, v.end)
                /\ data' = Insert(data, key', From(value'))
                /\ cur_token_idx' = v.end + 1
                /\ pos' = v.pos
                /\ pairs' = Append(pairs,
                                   [ key |-> key', value |-> value',
                                     from |-> cur_token_idx,
                                     to |-> IF v.closed THEN v.end + 1 ELSE v.end,
                                     closed |-> v.closed ])
                /\ pc' = "phase2"
    /\ UNCHANGED <<strategy, pass, line, level, logger_name,
                   log_message_start, stdout, returned, nested, scalar>>

\* Line 94: any other character.
Phase2Other ==
    /\ pc = "phase2" /\ pos < Len(line) /\ Peek \notin {" ", "="}
    /\ pos' = pos + 1
    /\ UNCHANGED <<strategy, pass, pc, line, level, logger_name, data,
                   log_message_start, log_message_end, cur_token_idx, key,
                   value, pairs, stdout, returned, nested, scalar>>

\* Lines 98-100: log.truncate(end); String::truncate does nothing when end
\* is beyond the string.
Truncated ==
    IF IsSome(log_message_end) /\ log_message_end[1] <= Len(line)
    THEN Slice(line, 0, log_message_end[1]) ELSE line

\* Line 101: log.split_off(log_message_start) panics when the index is
\* beyond the (truncated) string.
SplitOffPanics == log_message_start > Len(Truncated)

\* Lines 97-110: print the markers, cut the message out, return the Log.
Finalize ==
    /\ pc = "finalize"
    /\ stdout' = Append(stdout, <<log_message_start, log_message_end>>)
    /\ IF SplitOffPanics
       THEN /\ pc' = "panicked"
            /\ UNCHANGED returned
       ELSE /\ pc' = "done"
            /\ returned' = Some(Log(level, logger_name,
                                    Slice(Truncated, log_message_start, Len(Truncated)),
                                    data))
    /\ UNCHANGED <<strategy, pass, scanner, nested, scalar>>

\* Messages of JSON envelopes: a header line with a pair, a bare word, a
\* pair at offset 0, a severity with a word and a pair, a name with a word,
\* a severity directly followed by a pair.
EnvelopeMessages ==
    { INFO \o <<" ","a",".","b",":"," ","w"," ","k","=","7">>,
      <<"w">>,
      <<"k","=","7">>,
      INFO \o <<" ","w"," ","k","=","7">>,
      <<"a",".","b",":"," ","w">>,
      LOG \o <<" ","a","=">> }

\* The records serde_json::from_str can give for an envelope: every field
\* of Log present or absent.
Envelopes ==
    [ dt        : {None, Some(<<"2","0","2","3">>)},
      level     : {None, Some(<<"i","n","f","o">>)},
      name      : {None, Some(<<"s","v","c">>)},
      message   : EnvelopeMessages,
      platform  : {None, Some(<<"S","y","s","l","o","g">>)},
      extension : {None, Some(<<"h","o","s","t">>)},
      data      : {EmptyData, Insert(EmptyData, <<"k">>, DataValueString(<<"x">>))} ]

\* lib.rs lines 83-84: the message of the outer record o is taken out and
\* handed to the inner parse, a fresh call of parse_logfmt.
StartInner(o) ==
    /\ outer' = Some([o EXCEPT !.message = << >>])
    /\ line' = o.message
    /\ pass' = "inner"
    /\ pc' = "phase1"
    /\ pos' = 0
    /\ level' = None
    /\ logger_name' = None
    /\ data' = EmptyData
    /\ log_message_start' = 0
    /\ log_message_end' = None
    /\ cur_token_idx' = 0
    /\ key' = << >>
    /\ value' = << >>
    /\ pairs' = << >>
    /\ returned' = None

\* lib.rs lines 75, 82-84 with Logfmt as the outer strategy: the outer
\* parse_logfmt returned, the inner parse starts.
NestedInner ==
    /\ pc = "done" /\ strategy = "Nested" /\ pass = "outer"
    /\ StartInner(returned[1])
    /\ UNCHANGED <<strategy, stdout, merged, scalar>>

\* lib.rs lines 74, 82-84 with Json as the outer strategy, as Parser::nested()
\* has it: serde_json::from_str(&line) gives an error, which `?` returns,
\* or a Log, on whose message the inner parse starts.  The JSON text is not
\* represented: the envelope is any record of Envelopes.
FromJson ==
    /\ pc = "json" /\ strategy = "Nested" /\ pass = "outer"
    /\ \/ /\ pc' = "failed"
          /\ UNCHANGED <<pass, scanner, outer, returned>>
       \/ \E e \in Envelopes : StartInner(e)
    /\ UNCHANGED <<strategy, stdout, merged, scalar>>

\* A variant of the merge that keeps the outer logger name when the inner
\* record has none.
MergeKeepName(o, i) ==
    [ o EXCEPT !.data    = [k \in DOMAIN o.data \cup DOMAIN i.data |->
                               IF k \in DOMAIN i.data THEN i.data[k] ELSE o.data[k]],
               !.name    = IF IsNone(i.name) THEN o.name ELSE i.name,
               !.level   = IF IsNone(o.level) THEN i.level ELSE o.level,
               !.message = i.message ]

\* lib.rs lines 85-91: the inner record is merged into the outer one.
Merge(o, i) ==
    [ o EXCEPT !.data    = [k \in DOMAIN o.data \cup DOMAIN i.data |->
                               IF k \in DOMAIN i.data THEN i.data[k] ELSE o.data[k]],
               !.name    = i.name,
               !.level   = IF IsNone(o.level) THEN i.level ELSE o.level,
               !.message = i.message ]

NestedMerge ==
    /\ pc = "done" /\ strategy = "Nested" /\ pass = "inner"
    /\ merged' = Some(Merge(outer[1], returned[1]))
    /\ pc' = "merged"
    /\ UNCHANGED <<strategy, pass, scanner, stdout, returned, outer, scalar>>

\* ------------------------------------------------------------------------
\* Scalar calls: parse_duration(src) and DataValue::from(src) on their own
\* ------------------------------------------------------------------------

\* humantime.rs lines 145-150: parse_duration(src)
CallParseDuration ==
    /\ pc = "scalar" /\ IsNone(duration)
    /\ duration' = Some(ParseDuration(src))
    /\ UNCHANGED <<strategy, pass, pc, scanner, stdout, returned, nested, src, coerced>>

\* lib.rs lines 119-131: DataValue::from(src)
CallFrom ==
    /\ pc = "scalar" /\ IsNone(coerced)
    /\ coerced' = Some(From(src))
    /\ UNCHANGED <<strategy, pass, pc, scanner, stdout, returned, nested, src, duration>>

\* ------------------------------------------------------------------------
\* Inputs
\* ------------------------------------------------------------------------

MaxFragments == 4

MaxWords == 2

MaxPairs == 2

MaxScalarLen == 4

\* The pieces the short lines are put together from.
Fragments == { LOG, <<"a">>, <<" ">>, <<":">>, <<".">>, <<"=">>, <<"\"">>, <<"\\">> }

\* Every line of at most MaxFragments fragments.
FragmentLines == { Concat(fs) : fs \in SeqsUpTo(Fragments, MaxFragments) }

ShapeSeverities == { INFO, LOG }

ShapeNames == { <<"a", ".", "b">>, <<"a", ":", ":", "b">> }

ShapeWords == { <<"w">>, LOG }

ShapeKeys == { <<"k">>, <<"j">> }

ShapeValues == { <<"7">>, <<"1", ".", "5", "m", "s">>, <<"a", "/", "b">> }

\* " k=v"
RenderPair(kv) == <<" ">> \o kv[1] \o <<"=">> \o kv[2]

\* " w"
RenderWord(w) == <<" ">> \o w

\* "<SEVERITY> <name>: <words> k1=v1 ... kn=vn"
Render(sev, name, words, kvs) ==
    sev \o <<" ">> \o name \o <<":">>
        \o Concat([i \in 1..Len(words) |-> RenderWord(words[i])])
        \o Concat([i \in 1..Len(kvs) |-> RenderPair(kvs[i])])

\* The header lines: a severity, a logger name, one to MaxWords words and
\* up to MaxPairs pairs.
ShapedLines ==
    { Render(sev, name, words, kvs) :
        sev \in ShapeSeverities, name \in ShapeNames,
        words \in SeqsUpTo(ShapeWords, MaxWords) \ { << >> },
        kvs \in SeqsUpTo(ShapeKeys \X ShapeValues, MaxPairs) }

\* Lines whose header is interrupted by a word: a severity, a word, then a
\* logger name with its colon, a word and at most one pair.
InterruptedLines ==
    { sev \o RenderWord(w) \o RenderWord(name) \o <<":">> \o RenderWord(v)
          \o Concat([i \in 1..Len(kvs) |-> RenderPair(kvs[i])]) :
        sev \in ShapeSeverities, w \in ShapeWords, name \in ShapeNames,
        v \in ShapeWords, kvs \in SeqsUpTo(ShapeKeys \X ShapeValues, 1) }

Lines == FragmentLines \cup ShapedLines \cup InterruptedLines

ScalarAlphabet == {"1", "0", ".", "m", "s", "h", " ", "-", "e"}

\* The documented examples of parse_duration and of the Value Coercer.
ScalarExamples ==
    { <<"1","0","0",".","3","2","m","s">>,
      <<"1","8","9",".","4","5","7","1","7","8","m","s">>,
      <<"1","2","3",".","1","2","3","4">>,
      <<"1","2","7",".","0",".","0",".","1">>,
      <<"2","h">>, <<"2",".","0","h">>,
      <<"1","h","3","0","m">>, <<"1",".","0","h","3","0",".","0","m">>,
      <<"7">>, <<"3",".","1","4">>,
      <<"A","m","e","r","i","c","a","/","C","h","i","c","a","g","o">>,
      <<"5",".","0","u","s">>, <<"5",".","0",MicroSign,"s">>,
      <<"1",".","5","x">>,
      <<"1","0","0","0","0","0","0","0","0","0","0","0","0",".","0","y">>,
      <<"1","8","4","4","6","7","4","4","0","7","3","7","0","9","5","5","1","6","1","6",".","0","s">>,
      <<"1",".","1","8","4","4","6","7","4","4","0","7","3","7","0","9","5","5","1","6","1","6","s">>,
      <<"1",".","2","0","0","0","0","0","0","0","0","0","0","0","0","0","0","0","0","0","0","s">>,
      <<"1",".","5","s">>, <<"1",".","0","5","s">>, <<"1",".","5","0","s">> }

ScalarInputs == SeqsUpTo(ScalarAlphabet, MaxScalarLen) \cup ScalarExamples

\* ------------------------------------------------------------------------
\* Specifications
\* ------------------------------------------------------------------------

\* parse_logfmt lines 6-13, called by Parser::parse (lib.rs line 80 or 82).
ScannerStart(l) ==
    /\ line = l
    /\ pos = 0
    /\ level = None
    /\ logger_name = None
    /\ data = EmptyData
    /\ log_message_start = 0
    /\ log_message_end = None
    /\ cur_token_idx = 0
    /\ key = << >>
    /\ value = << >>
    /\ pairs = << >>

\* Parser::new(strategy).parse(line), with Logfmt as every InnerStrategy.
InitParser ==
    /\ strategy \in {"Direct", "Nested"}
    /\ pass = "outer"
    /\ pc = "phase1"
    /\ \E l \in Lines : ScannerStart(l)
    /\ stdout = << >>
    /\ returned = None
    /\ outer = None
    /\ merged = None
    /\ src = << >>
    /\ duration = None
    /\ coerced = None

\* Parser::nested().parse(line): Json outside, Logfmt inside.
InitEnvelope ==
    /\ strategy = "Nested"
    /\ pass = "outer"
    /\ pc = "json"
    /\ ScannerStart(<< >>)
    /\ stdout = << >>
    /\ returned = None
    /\ outer = None
    /\ merged = None
    /\ src = << >>
    /\ duration = None
    /\ coerced = None

\* parse_duration(src) and DataValue::from(src), called on their own.
InitScalar ==
    /\ strategy = "Direct"
    /\ pass = "outer"
    /\ pc = "scalar"
    /\ ScannerStart(<< >>)
    /\ stdout = << >>
    /\ returned = None
    /\ outer = None
    /\ merged = None
    /\ src \in ScalarInputs
    /\ duration = None
    /\ coerced = None

\* The library is entered through Parser::parse or through a scalar parser.
Init == InitParser \/ InitEnvelope \/ InitScalar

Next ==
    \/ Phase1Break
    \/ Phase1Exhausted
    \/ Phase1Skip
    \/ Phase1Severity
    \/ Phase1LoggerName
    \/ Phase1Ordinary
    \/ Phase2Exhausted
    \/ Phase2Space
    \/ Phase2Pair
    \/ Phase2Other
    \/ Finalize
    \/ NestedInner
    \/ FromJson
    \/ NestedMerge
    \/ CallParseDuration
    \/ CallFrom

Spec == Init /\ [][Next]_vars

\* ------------------------------------------------------------------------
\* What the properties are stated with: a line read token by token, by
\* splitting at spaces, independently of the scanner above.
\* ------------------------------------------------------------------------

\* The index of the first c in s (s holds one).
FirstIndex(s, c) == CHOOSE i \in 1..Len(s) : s[i] = c /\ \A j \in 1..(i - 1) : s[j] # c

RECURSIVE SplitSpaces(_)
\* s split at every space; two spaces in a row give an empty token.
SplitSpaces(s) ==
    IF ~Contains(s, {" "}) THEN <<s>>
    ELSE LET i == FirstIndex(s, " ")
         IN  <<SubSeq(s, 1, i - 1)>> \o SplitSpaces(SubSeq(s, i + 1, Len(s)))

RECURSIVE JoinSpaces(_)
\* The tokens with one space between neighbours.
JoinSpaces(ts) ==
    IF Len(ts) = 0 THEN << >>
    ELSE IF Len(ts) = 1 THEN ts[1]
    ELSE ts[1] \o <<" ">> \o JoinSpaces(Tail(ts))

\* The key and the raw value of a token "key=value".
PairKey(tok) == SubSeq(tok, 1, FirstIndex(tok, "=") - 1)

PairValue(tok) == SubSeq(tok, FirstIndex(tok, "=") + 1, Len(tok))

\* "key=value" with a value that holds no double quote.
IsUnquotedPair(tok) == Contains(tok, {"="}) /\ ~Contains(PairValue(tok), {"\""})

\* A word that is no severity word and holds no '.', ':' or '='.
IsOrdinaryWord(tok) ==
    tok # << >> /\ tok \notin Severities /\ ~Contains(tok, {".", ":", "="})

\* "<name>:" with a name that holds a '.' or a ':' and no '='.
IsHeaderName(tok) ==
    /\ Len(tok) >= 2 /\ tok[Len(tok)] = ":"
    /\ Contains(SubSeq(tok, 1, Len(tok) - 1), {".", ":"})
    /\ ~Contains(tok, {"="})

\* The tokens of l that are words: those after the two header tokens that
\* hold no '='.
WordsOf(l) ==
    LET t == SplitSpaces(l)
    IN  SelectSeq(SubSeq(t, 3, Len(t)), LAMBDA tok : ~Contains(tok, {"="}))

PairsOf(l) ==
    LET t == SplitSpaces(l)
    IN  SelectSeq(SubSeq(t, 3, Len(t)), LAMBDA tok : Contains(tok, {"="}))

\* l is "<SEVERITY> <name>: <one or more ordinary words> k1=v1 ... kn=vn":
\* single spaces, unquoted values, non-empty keys that differ.
IsHeaderLine(l) ==
    LET t  == SplitSpaces(l)
        ws == WordsOf(l)
        ps == PairsOf(l)
    IN  /\ Len(t) >= 3
        /\ t[1] \in Severities
        /\ IsHeaderName(t[2])
        /\ Len(ws) >= 1
        /\ \A i \in 1..Len(ws) : IsOrdinaryWord(ws[i]) /\ t[2 + i] = ws[i]
        /\ \A i \in 1..Len(ps) : IsUnquotedPair(ps[i]) /\ PairKey(ps[i]) # << >>
        /\ \A i, j \in 1..Len(ps) : PairKey(ps[i]) = PairKey(ps[j]) => i = j

\* The record the header line l stands for.
HeaderLineRecord(l) ==
    LET t  == SplitSpaces(l)
        ps == PairsOf(l)
    IN  Log(Some(t[1]), Some(SubSeq(t[2], 1, Len(t[2]) - 1)), JoinSpaces(WordsOf(l)),
            [k \in {PairKey(ps[i]) : i \in 1..Len(ps)} |->
                From(PairValue(ps[CHOOSE i \in 1..Len(ps) : PairKey(ps[i]) = k]))])

\* The extent [MessageFrom, MessageTo) of the residual message in line.
MessageFrom == log_message_start

MessageTo == IF IsSome(log_message_end) THEN log_message_end[1] ELSE Len(line)

\* The message and the text of pair p share a byte.
Overlaps(p) == p.from < MessageTo /\ MessageFrom < p.to

\* Every '=' of l stands in one run of pairs at the end of l: a space, no
\* '=' before it, and after it nothing but unquoted pairs, one space apart.
IsTrailingRun(l) ==
    \E b \in 1..Len(l) :
        /\ l[b] = " "
        /\ ~Contains(SubSeq(l, 1, b), {"="})
        /\ LET t == SplitSpaces(SubSeq(l, b + 1, Len(l)))
           IN  \A i \in 1..Len(t) : IsUnquotedPair(t[i])

\* m begins with a token, ended by a space or a colon-space, that is a
\* severity word or holds a '.' or a ':'.
BeginsWithHeaderToken(m) ==
    LET ends == {i \in 1..Len(m) : m[i] = " " \/ (m[i] = ":" /\ i < Len(m) /\ m[i + 1] = " ")}
    IN  /\ ends # {}
        /\ LET i   == CHOOSE e \in ends : \A f \in ends : e <= f
               tok == SubSeq(m, 1, i - 1)
           IN  tok \in Severities \/ Contains(tok, {".", ":"})

\* ------------------------------------------------------------------------
\* C1..C5: parse_logfmt
\* ------------------------------------------------------------------------

\* C1: parse_logfmt never panics: at finalization the message start is at
\* most the effective message end (the marker, or the length of the line),
\* so truncating and splitting off are in bounds.  (Violated.)
C1_NeverPanics ==
    /\ pc # "panicked"
    /\ pc = "finalize" => log_message_start <= MessageTo

\* C2: a line "<SEVERITY> <name>: <ordinary words> k1=v1 ... kn=vn" gives
\* severity SEVERITY, logger name <name>, exactly the words as message and
\* exactly the keys k1..kn, each with its coerced value.
C2_HeaderLine ==
    pc \in {"done", "panicked"} /\ IsHeaderLine(line) =>
        pc = "done" /\ returned[1] = HeaderLineRecord(line)

C2_Witness ==
    /\ pc = "done" /\ IsHeaderLine(line)
    /\ Len(WordsOf(line)) = 2
    /\ {returned[1].data[k].tag : k \in DOMAIN returned[1].data} = {"I64", "Duration"}

\* C3 as claimed: whenever a pair was extracted, the message holds none of
\* the text of any extracted pair.  (Violated.)
C3_MessageHoldsNoPair ==
    pc = "done" /\ Len(pairs) > 0 => \A i \in 1..Len(pairs) : ~Overlaps(pairs[i])

\* C3 as amended: when every '=' of the line stands in one run of unquoted
\* pairs at its end, one space apart, and a record is returned, the message
\* ends right before the space in front of the first pair and holds none of
\* the text of any pair.
C3_TrailingRun ==
    pc = "done" /\ IsTrailingRun(line) =>
        /\ Len(pairs) > 0
        /\ \A i \in 1..Len(pairs) : ~Overlaps(pairs[i])
        /\ MessageTo = pairs[1].from - 1
        /\ returned[1].message = Slice(line, log_message_start, pairs[1].from - 1)

C3_Witness ==
    /\ pc = "done" /\ IsTrailingRun(line)
    /\ Len(pairs) = 2 /\ log_message_start > 0
    /\ returned[1].message # << >>

\* C4: the keys of data are the keys of the pairs read, and each key maps
\* to the coerced value of its last pair.
C4_LastWriteWins ==
    pc = "done" =>
        LET d == returned[1].data
        IN  /\ DOMAIN d = {pairs[i].key : i \in 1..Len(pairs)}
            /\ \A i \in 1..Len(pairs) :
                   (\A j \in (i + 1)..Len(pairs) : pairs[j].key # pairs[i].key)
                       => d[pairs[i].key] = From(pairs[i].value)

C4_Witness ==
    /\ pc = "done" /\ Len(pairs) = 2
    /\ pairs[1].key = pairs[2].key /\ Len(pairs[1].key) > 0
    /\ From(pairs[1].value).tag = "I64" /\ From(pairs[2].value).tag = "Duration"
    /\ returned[1].data[pairs[1].key].tag = "Duration"

\* C5 as claimed: tokenizing a residual message that holds no '=' gives
\* empty data and the message unchanged.  (Violated.)
C5_Idempotent ==
    pc = "done" /\ pass = "inner" /\ ~Contains(line, {"="}) =>
        returned[1].data = EmptyData /\ returned[1].message = line

\* C5 as amended: tokenizing a residual message m that holds no '=' gives
\* empty data and a suffix of m; the message is m itself exactly when m
\* does not begin with a header token (a severity word or a token with a
\* '.' or ':', ended by a space or a colon-space).
C5_IdempotentUnlessHeader ==
    pc \in {"done", "panicked"} /\ pass = "inner" /\ ~Contains(line, {"="}) =>
        LET m == returned[1].message
        IN  /\ pc = "done"
            /\ returned[1].data = EmptyData
            /\ m = SubSeq(line, Len(line) - Len(m) + 1, Len(line))
            /\ m = line <=> ~BeginsWithHeaderToken(line)

C5_Witness ==
    /\ pc = "done" /\ pass = "inner" /\ ~Contains(line, {"="})
    /\ DOMAIN outer[1].data # {}
    /\ Contains(line, {" "}) /\ returned[1].message = line

\* ------------------------------------------------------------------------
\* C6..C10: the Value Coercer and parse_duration
\* ------------------------------------------------------------------------

\* v is what the ordered rule gives for the raw string s: an integer if s
\* parses as i64, else a float if s parses as f64, else a duration if
\* parse_duration(s) succeeds, else s itself.
IsOrderedCoercion(s, v) ==
    IF ParsesAsI64(s) THEN v.tag = "I64" /\ v.v = I64Of(s)
    ELSE IF ParsesAsF64(s) THEN v.tag = "F64"
    ELSE IF IsOk(ParseDuration(s)) THEN v.tag = "Duration" /\ v.v = ParseDuration(s).ok
    ELSE v.tag = "String" /\ v.v = s

Example7 == <<"7">>

Example314 == <<"3", ".", "1", "4">>

Example10032ms == <<"1","0","0",".","3","2","m","s">>

ExampleChicago == <<"A","m","e","r","i","c","a","/","C","h","i","c","a","g","o">>

\* C6: DataValue::from follows the ordered rule on every raw string and
\* never fails; "7" is the integer 7, "3.14" a float, "100.32ms" a duration
\* of 100.32 ms, "America/Chicago" itself; and every value in the
\* tokenizer's data is the ordered coercion of the raw value of a pair.
C6_OrderedCoercion ==
    /\ IsSome(coerced) =>
          /\ IsOrderedCoercion(src, coerced[1])
          /\ src = Example7 => coerced[1].tag = "I64" /\ coerced[1].v = 7
          /\ src = Example314 => coerced[1].tag = "F64"
          /\ src = Example10032ms =>
                 /\ coerced[1].tag = "Duration"
                 /\ coerced[1].v = [secs |-> <<0>>, nanos |-> 100320000]
          /\ src = ExampleChicago => coerced[1].tag = "String" /\ coerced[1].v = ExampleChicago
    /\ \A k \in DOMAIN data :
          \E i \in 1..Len(pairs) :
              pairs[i].key = k /\ IsOrderedCoercion(pairs[i].value, data[k])

C6_Witness ==
    /\ IsSome(coerced) /\ src = Example10032ms /\ coerced[1].tag = "Duration"

\* A decimal quantity: digits, or digits '.' digits.
IsQuantity(x) ==
    \/ IsDigitString(x)
    \/ \E i \in 1..Len(x) : /\ x[i] = "."
                            /\ IsDigitString(SubSeq(x, 1, i - 1))
                            /\ IsDigitString(SubSeq(x, i + 1, Len(x)))

\* A well-formed group: a quantity immediately followed by a known unit.
IsGroup(g) ==
    \E k \in 1..Len(g) : IsQuantity(SubSeq(g, 1, k)) /\ SubSeq(g, k + 1, Len(g)) \in KnownUnits

\* What add_unit adds for the group g.
GroupAmount(g) ==
    LET k == CHOOSE k \in 1..Len(g) :
                 IsQuantity(SubSeq(g, 1, k)) /\ SubSeq(g, k + 1, Len(g)) \in KnownUnits
        x == SubSeq(g, 1, k)
        u == SubSeq(g, k + 1, Len(g))
    IN  IF IsDigitString(x) THEN UnitAmount(DigitsOf(x), <<0>>, u)
        ELSE LET i == FirstIndex(x, ".")
             IN  UnitAmount(DigitsOf(SubSeq(x, 1, i - 1)), DigitsOf(SubSeq(x, i + 1, Len(x))), u)

RECURSIVE GroupSplits(_)
\* The ways to cut s into well-formed groups (at most one).
GroupSplits(s) ==
    IF s = << >> THEN { << >> }
    ELSE UNION { { <<SubSeq(s, 1, c)>> \o rest : rest \in GroupSplits(SubSeq(s, c + 1, Len(s))) } :
                 c \in {c \in 1..Len(s) : IsGroup(SubSeq(s, 1, c))} }

RECURSIVE SumAmounts(_)
SumAmounts(gs) ==
    IF gs = << >> THEN [secs |-> <<0>>, nanos |-> 0]
    ELSE LET a == GroupAmount(Head(gs))
             r == SumAmounts(Tail(gs))
         IN  [secs |-> DigitsAdd(a.secs, r.secs), nanos |-> a.nanos + r.nanos]

\* C7: an input that is two or more well-formed groups in a row parses,
\* to the sum of the groups.  (Violated.)
C7_GroupsAdd ==
    IsSome(duration) =>
        \A gs \in GroupSplits(src) :
            Len(gs) >= 2 =>
                /\ IsOk(duration[1])
                /\ duration[1].ok = DurationNew(SumAmounts(gs).secs, SumAmounts(gs).nanos)

\* Decimal digits immediately followed by a known unit, and no '.'.
IsIntegerGroup(s) == IsGroup(s) /\ ~Contains(s, {"."})

\* C8: digits immediately followed by a known unit, without a '.', parse
\* to the quantity times the unit.  (Violated.)
C8_FractionOptional ==
    IsSome(duration) /\ IsIntegerGroup(src) =>
        /\ IsOk(duration[1])
        /\ duration[1].ok = DurationNew(GroupAmount(src).secs, GroupAmount(src).nanos)

\* s holds nothing but decimal digits, '.' and whitespace.
IsUnitless(s) == \A i \in 1..Len(s) : s[i] \in Digits \cup {"."} \/ IsWhitespace(s[i])

\* C9: an input of nothing but digits, '.' and whitespace is an error.
C9_UnitlessIsError == IsSome(duration) /\ IsUnitless(src) => IsErr(duration[1])

C9_Witness ==
    /\ IsSome(duration)
    /\ src = <<"1","2","7",".","0",".","0",".","1">>
    /\ duration[1] = ErrInvalidCharacter(5)

\* s is empty or holds nothing but whitespace.
IsBlank(s) == \A i \in 1..Len(s) : IsWhitespace(s[i])

\* C10: parse_duration returns Error::Empty exactly for the blank inputs.
\* (Violated.)
C10_EmptyIffBlank == IsSome(duration) => (duration[1] = ErrEmpty <=> IsBlank(src))

\* ------------------------------------------------------------------------
\* C11..C17: Parser::parse (Nested) and the phases of parse_logfmt
\* ------------------------------------------------------------------------

\* Two DataValues are the same variant with the same content.
SameValue(a, b) == a.tag = b.tag /\ a.v = b.v

\* C11: the record Parser::parse returns for Strategy::Nested has the
\* union of outer and inner data, the inner entry winning; the inner
\* logger name, present or not; the outer severity if there is one, else
\* the inner severity; the inner message; and dt, platform and extension
\* of the outer record.
C11_NestedMerge ==
    pc = "merged" =>
        LET o == outer[1]
            i == returned[1]
            r == merged[1]
        IN  /\ DOMAIN r.data = DOMAIN o.data \cup DOMAIN i.data
            /\ \A k \in DOMAIN i.data : SameValue(r.data[k], i.data[k])
            /\ \A k \in DOMAIN o.data \ DOMAIN i.data : SameValue(r.data[k], o.data[k])
            /\ r.name = i.name
            /\ r.level = IF IsSome(o.level) THEN o.level ELSE i.level
            /\ r.message = i.message
            /\ r.dt = o.dt /\ r.platform = o.platform /\ r.extension = o.extension

C11_Witness ==
    /\ pc = "merged"
    /\ IsSome(outer[1].name) /\ IsNone(returned[1].name) /\ IsNone(merged[1].name)
    /\ IsSome(outer[1].level) /\ IsSome(returned[1].level)
    /\ merged[1].level # returned[1].level
    /\ IsSome(merged[1].dt) /\ IsSome(merged[1].platform) /\ IsSome(merged[1].extension)
    /\ \E k \in DOMAIN outer[1].data \cap DOMAIN returned[1].data :
           outer[1].data[k].tag = "String" /\ merged[1].data[k].tag = "I64"

\* C12: parse_logfmt has no effect outside its return value: nothing is
\* ever written to standard output.  (Violated.)
C12_NoOutput == stdout = << >>

\* In phase 1 the token cursor equals the message start until a delimited
\* token is ordinary, and lies beyond it from then on.
OrdinaryTokenSeen == pc = "phase1" /\ cur_token_idx > log_message_start

\* C13: once a delimited token of phase 1 was ordinary, no later step of
\* phase 1 moves the message start, the colon-space included.  (Violated.)
C13_StartFrozen ==
    [][OrdinaryTokenSeen => log_message_start' = log_message_start]_vars

\* Where phase 1 ends in l: at the first '=' or colon-space, or past the
\* end of l.
Phase1End(l) ==
    LET stops == {i \in 1..Len(l) :
                      l[i] = "=" \/ (l[i] = ":" /\ i < Len(l) /\ l[i + 1] = " ")}
    IN  IF stops = {} THEN Len(l) + 1 ELSE CHOOSE e \in stops : \A f \in stops : e <= f

\* The delimited tokens of phase 1: the pieces between spaces in front of
\* Phase1End(l); the last piece counts only when a colon-space ends it.
Phase1Tokens(l) ==
    LET e    == Phase1End(l)
        toks == SplitSpaces(SubSeq(l, 1, e - 1))
    IN  IF e <= Len(l) /\ l[e] = ":" THEN toks ELSE SubSeq(toks, 1, Len(toks) - 1)

\* The leftmost delimited token of phase 1 that is a severity word.
FirstSeverity(l) ==
    LET sev == SelectSeq(Phase1Tokens(l), LAMBDA tok : tok \in Severities)
    IN  IF sev = << >> THEN None ELSE Some(sev[1])

\* C14: the severity parse_logfmt returns is the leftmost delimited token
\* of phase 1 that is a severity word, contiguous with the header or not,
\* and absent if there is none; once set, no step of the call changes it.
C14_FirstSeverity ==
    /\ [](/\ pc = "finalize" => level = FirstSeverity(line)
          /\ pc = "done" => returned[1].level = FirstSeverity(line))
    /\ [][IsSome(level) /\ pass' = pass => level' = level]_vars

C14_Witness ==
    /\ pc = "done" /\ returned[1].level = Some(INFO)
    /\ \E i \in 1..Len(Phase1Tokens(line)) : Phase1Tokens(line)[i] = LOG

\* A token with a '.' or a ':' that is no severity word.
IsNameToken(tok) == tok \notin Severities /\ Contains(tok, {".", ":"})

\* toks[j] and every token before it is a severity word or a name token:
\* toks[j] is contiguous with the header.
IsContiguous(toks, j) == \A i \in 1..j : toks[i] \in Severities \/ IsNameToken(toks[i])

\* The first name token that is contiguous with the header.
ContiguousName(l) ==
    LET toks  == Phase1Tokens(l)
        names == {j \in 1..Len(toks) : IsNameToken(toks[j]) /\ IsContiguous(toks, j)}
    IN  IF names = {} THEN None
        ELSE Some(toks[CHOOSE j \in names : \A i \in names : j <= i])

RECURSIVE TokenOffset(_, _)
\* The offset in the line of toks[j], the tokens being one space apart.
TokenOffset(toks, j) ==
    IF j = 1 THEN 0 ELSE TokenOffset(toks, j - 1) + Len(toks[j - 1]) + 1

\* The name tokens of phase 1 that stand after an ordinary token.
LateNames(l) ==
    LET toks == Phase1Tokens(l)
    IN  {j \in 1..Len(toks) : IsNameToken(toks[j]) /\ ~IsContiguous(toks, j)}

\* C15: the logger name is the first name token contiguous with the header,
\* or absent; a name token after an ordinary token is not recorded and
\* stays in the residual message.
C15_ContiguousName ==
    /\ pc = "finalize" =>
          /\ logger_name = ContiguousName(line)
          /\ \A j \in LateNames(line) :
                 log_message_start <= TokenOffset(Phase1Tokens(line), j)
    /\ pc = "done" =>
          /\ returned[1].name = ContiguousName(line)
          /\ \A j \in LateNames(line) :
                 LET tok == Phase1Tokens(line)[j]
                     off == TokenOffset(Phase1Tokens(line), j) - log_message_start
                 IN  /\ off >= 0
                     /\ SubSeq(returned[1].message, off + 1, off + Len(tok)) = tok

C15_Witness ==
    /\ pc = "done" /\ IsNone(returned[1].name) /\ IsSome(returned[1].level)
    /\ LateNames(line) # {}

\* The first offset at or after a where l holds a character of chars, or
\* the length of l.
NextOf(l, a, chars) ==
    LET hits == {i \in a..(Len(l) - 1) : l[i + 1] \in chars}
    IN  IF hits = {} THEN Len(l) ELSE CHOOSE i \in hits : \A j \in hits : i <= j

\* The first offset after a of a double quote that no backslash precedes,
\* or the length of l.
ClosingQuote(l, a) ==
    LET hits == {i \in (a + 1)..(Len(l) - 1) : l[i + 1] = "\"" /\ l[i] # "\\"}
    IN  IF hits = {} THEN Len(l) ELSE CHOOSE i \in hits : \A j \in hits : i <= j

\* The raw value that starts at offset a of l, right after an '=', read in
\* one of two forms by its first character: between the quotes, or up to
\* the next space.
RawValueAt(l, a) ==
    IF a < Len(l) /\ l[a + 1] = "\""
    THEN Slice(l, a + 1, ClosingQuote(l, a))
    ELSE Slice(l, a, NextOf(l, a, {" "}))

\* C16: the raw value of every pair is read in one of two forms, chosen by
\* the first character after the '='.  (Violated.)
C16_TwoForms ==
    \A i \in 1..Len(pairs) :
        pairs[i].value = RawValueAt(line, pairs[i].from + Len(pairs[i].key) + 1)

\* C17 as claimed: when a record is returned the message-end marker is
\* unset exactly when no pair was inserted, so the message runs to the end
\* of the line exactly when data is empty.  (Violated.)
C17_UnsetIffNoPair ==
    pc = "done" =>
        /\ IsNone(log_message_end) <=> DOMAIN returned[1].data = {}
        /\ returned[1].message = Slice(line, log_message_start, Len(line))
               <=> DOMAIN returned[1].data = {}

\* The value of pair p ended at a closing quote.
IsClosed(p) == p.closed

\* The spaces after pair p that the second loop reads itself: at or after
\* the end of p, outside every pair, and not the space that ended an
\* unquoted value.
SpacesAfter(p) ==
    {s \in p.to..(Len(line) - 1) :
        /\ line[s + 1] = " "
        /\ \A i \in 1..Len(pairs) :
               /\ ~(pairs[i].from <= s /\ s < pairs[i].to)
               /\ ~(s = pairs[i].to /\ ~IsClosed(pairs[i]))}

\* The pairs that hold the marker at the end of the scan: the key starts
\* after offset 0 and no space of the second loop follows.
Anchors == {i \in 1..Len(pairs) : pairs[i].from > 0 /\ SpacesAfter(pairs[i]) = {}}

\* C17 as amended: the message is the text from the message start to the
\* marker, or to the end of the line if the marker is unset; the marker is
\* unset while no pair was inserted; at the end of the scan it is set
\* exactly when some pair, whose key starts after offset 0, is followed by
\* no space of the second loop, and it is the offset in front of the key of
\* the first such pair.
C17_MessageExtent ==
    /\ pairs = << >> => IsNone(log_message_end)
    /\ pc \in {"finalize", "done"} =>
          /\ IsSome(log_message_end) <=> Anchors # {}
          /\ \A i \in Anchors :
                 (\A j \in Anchors : i <= j) => log_message_end = Some(pairs[i].from - 1)
    /\ pc = "done" =>
          /\ returned[1].message = Slice(line, log_message_start, MessageTo)
          /\ DOMAIN returned[1].data = {} =>
                 returned[1].message = Slice(line, log_message_start, Len(line))

C17_Witness ==
    /\ pc = "done" /\ Len(pairs) = 1
    /\ IsNone(log_message_end)
    /\ pairs[1].from > 0
    /\ returned[1].message = Slice(line, log_message_start, Len(line))

\* ------------------------------------------------------------------------
\* C18..C20: the arithmetic of parse_duration
\* ------------------------------------------------------------------------

\* The cut of a well-formed group g: where its quantity ends.
UnitAt(g) ==
    CHOOSE k \in 1..Len(g) :
        IsQuantity(SubSeq(g, 1, k)) /\ SubSeq(g, k + 1, Len(g)) \in KnownUnits

UnitOf(g) == SubSeq(g, UnitAt(g) + 1, Len(g))

\* The digits written in front of the '.' of g (all of them without a '.').
IntegerPart(g) ==
    LET x == SubSeq(g, 1, UnitAt(g))
    IN  IF IsDigitString(x) THEN x ELSE SubSeq(x, 1, FirstIndex(x, ".") - 1)

\* The digits written behind the '.' of g.
FractionPart(g) ==
    LET x == SubSeq(g, 1, UnitAt(g))
    IN  IF IsDigitString(x) THEN << >> ELSE SubSeq(x, FirstIndex(x, ".") + 1, Len(x))

\* The whole units of the group g alone are worth more seconds than a u64
\* holds, or one of its two numbers is itself more than a u64 holds.
ExceedsU64(g) ==
    \/ ~DigitsLE(DigitsOf(IntegerPart(g)), U64MaxDigits)
    \/ ~DigitsLE(DigitsOf(<<"0">> \o FractionPart(g)), U64MaxDigits)
    \/ /\ UnitOf(g) \in DOMAIN SecondUnits
       /\ ~DigitsLE(DigitsTimesPlus(DigitsOf(IntegerPart(g)), SecondUnits[UnitOf(g)], 0),
                    U64MaxDigits)

\* C18: parse_duration fails with NumberOverflow whenever a number of the
\* input or the product with the unit exceeds the unsigned 64-bit range; it
\* never returns a saturated duration.  (Violated.)
C18_OverflowFails ==
    IsSome(duration) /\ IsGroup(src) /\ ExceedsU64(src) =>
        duration[1] = ErrNumberOverflow

\* The quantity in front of a unit written with the micro sign, if src is
\* such an input.
MicroQuantity(s) == SubSeq(s, 1, Len(s) - 2)

IsMicroInput(s) ==
    /\ Len(s) > 2
    /\ SubSeq(s, Len(s) - 1, Len(s)) = <<MicroSign, "s">>
    /\ IsQuantity(MicroQuantity(s))

\* C19: a well-formed quantity followed by the unit written with the micro
\* sign parses, to what the same quantity followed by "us" parses to.
\* (Violated.)
C19_MicroSign ==
    IsSome(duration) /\ IsMicroInput(src) =>
        /\ IsOk(duration[1])
        /\ duration[1] = ParseDuration(MicroQuantity(src) \o <<"u", "s">>)

\* A well-formed group with a fraction that does not begin with a zero.
IsFractionGroup(g) ==
    /\ IsGroup(g)
    /\ FractionPart(g) # << >>
    /\ FractionPart(g)[1] # "0"

\* The group g with the fraction f in place of its own.
WithFraction(g, f) == IntegerPart(g) \o <<".">> \o f \o UnitOf(g)

ZeroInFront(g) == WithFraction(g, <<"0">> \o FractionPart(g))

TwoZerosInFront(g) == WithFraction(g, <<"0", "0">> \o FractionPart(g))

ZeroBehind(g) == WithFraction(g, FractionPart(g) \o <<"0">>)

\* The fraction of g with a zero behind it, as a number.
FractionTimesTen(g) == DigitsOf(FractionPart(g) \o <<"0">>)

\* C20 as stated: n.f u, n.0f u and n.00f u parse to the same result, and
\* so does n.f0 u.  (Violated: the longer fraction can leave the u64 range.)
C20_ZerosIgnored ==
    IsSome(duration) /\ IsFractionGroup(src) =>
        /\ ParseDuration(ZeroInFront(src)) = duration[1]
        /\ ParseDuration(TwoZerosInFront(src)) = duration[1]
        /\ ParseDuration(ZeroBehind(src)) = duration[1]

\* C20 as amended: zeros in front of the fraction are lost, so n.f u,
\* n.0f u and n.00f u parse to the same result; n.f0 u parses to the same
\* result as n.f u while the fraction f0 is a number an f64 holds exactly
\* (at most 2^53), and fails with NumberOverflow once f0 is more than a
\* u64 holds, whatever n.f u parses to.
C20_FractionDigits ==
    IsSome(duration) /\ IsFractionGroup(src) =>
        /\ ParseDuration(ZeroInFront(src)) = duration[1]
        /\ ParseDuration(TwoZerosInFront(src)) = duration[1]
        /\ DigitsLE(FractionTimesTen(src), TwoPow53Digits) =>
               ParseDuration(ZeroBehind(src)) = duration[1]
        /\ ~DigitsLE(FractionTimesTen(src), U64MaxDigits) =>
               ParseDuration(ZeroBehind(src)) = ErrNumberOverflow

C20_Witness ==
    /\ IsSome(duration) /\ src = <<"1", ".", "5", "s">>
    /\ duration[1] = [ok |-> [secs |-> <<1>>, nanos |-> 500000000]]
    /\ ParseDuration(<<"1", ".", "0", "5", "s">>) = duration[1]
    /\ ParseDuration(<<"1", ".", "5", "0", "s">>) = duration[1]

=============================================================================
